---- MODULE Spec2Model ----
(***************************************************************************)
(* ValutaTrade Hub: the wallet ledger use cases (core/usecases.py) and the *)
(* rate snapshot storage (parser_service/storage.py).                      *)
(*                                                                         *)
(* Strings are sequences of one-character strings, so that strip(),        *)
(* upper(), concatenation and Python's lexicographic string comparison are *)
(* computed rather than assumed.  Money amounts and balances are integers  *)
(* in 1/100 of a currency unit; rates are integers in 1/100 (UnitRate is   *)
(* the rate 1.0).                                                          *)
(* Amounts are finite numbers (no NaN / infinity).                         *)
(***************************************************************************)
EXTENDS Integers, Sequences, FiniteSets, TLC

(* ------------------------------------------------------------------ *)
(* Bounds of the model                                                  *)
(* ------------------------------------------------------------------ *)
MaxUsers == 2
MaxOps == 3
MaxTicks == 2

(* ------------------------------------------------------------------ *)
(* Strings                                                              *)
(* ------------------------------------------------------------------ *)
IsSpace(c) == c = " "

Upper(c) ==
    CASE c = "u" -> "U"
      [] c = "s" -> "S"
      [] c = "d" -> "D"
      [] c = "e" -> "E"
      [] c = "r" -> "R"
      [] c = "b" -> "B"
      [] c = "t" -> "T"
      [] c = "c" -> "C"
      [] OTHER -> c

UpperStr(s) == [i \in 1..Len(s) |-> Upper(s[i])]

RECURSIVE LStrip(_)
LStrip(s) == IF s # <<>> /\ IsSpace(Head(s)) THEN LStrip(Tail(s)) ELSE s

RECURSIVE RStrip(_)
RStrip(s) ==
    IF s # <<>> /\ IsSpace(s[Len(s)]) THEN RStrip(SubSeq(s, 1, Len(s) - 1)) ELSE s

Strip(s) == RStrip(LStrip(s))

(* code point of the characters the model's timestamps are written with *)
Ord(c) ==
    CASE c = " " -> 32
      [] c = "0" -> 48
      [] c = "1" -> 49
      [] c = "2" -> 50
      [] c = "3" -> 51
      [] c = "4" -> 52
      [] c = "5" -> 53
      [] c = "6" -> 54
      [] c = "7" -> 55
      [] c = "8" -> 56
      [] c = "9" -> 57
      [] c = "Z" -> 90
      [] OTHER -> 63

(* Python's a > b on str: lexicographic by code point, a proper prefix is smaller *)
RECURSIVE StrGT(_, _)
StrGT(a, b) ==
    IF a = <<>> THEN FALSE
    ELSE IF b = <<>> THEN TRUE
    ELSE IF Ord(Head(a)) # Ord(Head(b)) THEN Ord(Head(a)) > Ord(Head(b))
    ELSE StrGT(Tail(a), Tail(b))

(* Optional values: None is the empty tuple, a present value v is <<v>> *)
None == <<>>
Some(v) == <<v>>

(* ------------------------------------------------------------------ *)
(* Time: the clock counts seconds; a timestamp string is the two-digit  *)
(* decimal of the second (fixed width, as the fields of an ISO string), *)
(* with a trailing "Z" when written by the parser service.              *)
(* ------------------------------------------------------------------ *)
Digits == <<"0", "1", "2", "3", "4", "5", "6", "7", "8", "9">>

IsDigit(c) == \E d \in 1..10 : Digits[d] = c
DigitValue(c) == (CHOOSE d \in 1..10 : Digits[d] = c) - 1

(* datetime.isoformat(timespec="seconds") *)
isoformat(t) == <<Digits[(t \div 10) + 1], Digits[(t % 10) + 1]>>

(* _utc_iso: strftime("%Y-%m-%dT%H:%M:%SZ") *)
utc_iso(t) == isoformat(t) \o <<"Z">>

(* _parse_iso_dt: None for an empty or unparseable string *)
parse_iso_dt(value) ==
    IF Strip(value) = <<>> THEN None
    ELSE IF Len(value) = 2 /\ IsDigit(value[1]) /\ IsDigit(value[2])
    THEN Some(10 * DigitValue(value[1]) + DigitValue(value[2]))
    ELSE None

(* a faulty variant: the boundary is exclusive *)
is_fresh_exclusive(updated_at_iso, max_age_seconds, clock) ==
    LET dt == parse_iso_dt(updated_at_iso)
    IN  IF dt = None THEN FALSE ELSE clock - dt[1] < max_age_seconds

(* _is_fresh: age = (datetime.now() - dt).total_seconds(); age <= max_age_seconds *)
is_fresh(updated_at_iso, max_age_seconds, clock) ==
    LET dt == parse_iso_dt(updated_at_iso)
    IN  IF dt = None THEN FALSE ELSE clock - dt[1] <= max_age_seconds

(* the second at which the process starts *)
StartTime == 10

(* RATES_TTL_SECONDS of the settings *)
RATES_TTL_SECONDS == 300

(* ------------------------------------------------------------------ *)
(* Currency codes                                                       *)
(* ------------------------------------------------------------------ *)
USD == <<"U", "S", "D">>
EUR == <<"E", "U", "R">>
BTC == <<"B", "T", "C">>
ETH == <<"E", "T", "H">>
XYZ == <<"X", "Y", "Z">>

(* _normalize_currency_code: strip().upper(); [ok |-> FALSE] is the ValueError *)
normalize_currency_code(code) ==
    LET value == UpperStr(Strip(code))
    IN  IF value = <<>> THEN [ok |-> FALSE, value |-> <<>>]
        ELSE [ok |-> TRUE, value |-> value]

PairKey(f, t) == f \o <<"_">> \o t

(* ------------------------------------------------------------------ *)
(* Rates                                                                *)
(* ------------------------------------------------------------------ *)
(* the float 1.0 (the rate of a currency to itself) in the model's 1/100 units *)
UnitRate == 100

(* the stub table of _get_rate, in 1/100.  RUB (0.01016) is below the   *)
(* resolution of the model and is not among the modelled codes.         *)
to_usd == (USD :> 100) @@ (EUR :> 107) @@ (BTC :> 5933721) @@ (ETH :> 372000)

EmptyFn == [x \in {} |-> 0]

(* rates.json: "pairs" and "last_refresh" are the snapshot of the parser    *)
(* service; "top" are the pair keys the core writes at the top level of the *)
(* same object, with the top-level "source" marker.                         *)
EmptyRates ==
    [pairs |-> EmptyFn, last_refresh |-> None, top |-> EmptyFn, source |-> None]

(* _get_rate(from, to): [err |-> "" , rate] or a failure *)
get_rate(from_code, to_code, rates) ==
    LET nf == normalize_currency_code(from_code)
        nt == normalize_currency_code(to_code)
        f == nf.value
        t == nt.value
        pair == PairKey(f, t)
    IN  IF ~nf.ok \/ ~nt.ok THEN [err |-> "ValueError", rate |-> 0, code |-> <<>>]
        ELSE IF f = t THEN [err |-> "", rate |-> UnitRate, code |-> <<>>]
        ELSE IF pair \in DOMAIN rates.top /\ rates.top[pair].rate > 0
            THEN [err |-> "", rate |-> rates.top[pair].rate, code |-> <<>>]
        ELSE IF t = USD
            THEN IF f \notin DOMAIN to_usd
                 THEN [err |-> "CurrencyNotFoundError", rate |-> 0, code |-> f]
                 ELSE [err |-> "", rate |-> to_usd[f], code |-> <<>>]
        ELSE IF t \notin DOMAIN to_usd
            THEN [err |-> "CurrencyNotFoundError", rate |-> 0, code |-> t]
        ELSE IF f \notin DOMAIN to_usd
            THEN [err |-> "CurrencyNotFoundError", rate |-> 0, code |-> f]
        ELSE [err |-> "", rate |-> (to_usd[f] * UnitRate) \div to_usd[t], code |-> <<>>]

(* amount * rate, a float product kept to the 1/100 resolution of the model *)
Times(amt, rate) == (amt * rate) \div UnitRate

(* ------------------------------------------------------------------ *)
(* Portfolio store (portfolios.json: a list of records)                 *)
(* ------------------------------------------------------------------ *)
(* next(p for p in portfolios if p.user_id == user_id): index, 0 if none *)
FindRecord(ps, user_id) ==
    LET hits == {i \in 1..Len(ps) : ps[i].user_id = user_id}
    IN  IF hits = {} THEN 0 ELSE CHOOSE i \in hits : \A j \in hits : i <= j

(* _load_user_portfolio: code -> balance of the user's record, {} if none *)
load_user_portfolio(ps, user_id) ==
    LET i == FindRecord(ps, user_id)
    IN  IF i = 0 THEN EmptyFn
        ELSE LET w == ps[i].wallets
                 keys == {normalize_currency_code(k).value : k \in DOMAIN w}
             IN  [c \in keys |->
                    w[CHOOSE k \in DOMAIN w : normalize_currency_code(k).value = c]]

(* a faulty variant: the record's wallets are replaced by the one wallet *)
SetWalletOnly(w, code, bal) == [c \in {code} |-> bal]

(* wallets[code] = {"balance": new_balance} *)
SetWallet(w, code, bal) == [c \in (DOMAIN w) \cup {code} |-> IF c = code THEN bal ELSE w[c]]

(* a faulty variant: the list is cut down to the user's record *)
LocateAlone(ps, user_id) ==
    IF FindRecord(ps, user_id) = 0 THEN <<[user_id |-> user_id, wallets |-> EmptyFn]>>
    ELSE <<ps[FindRecord(ps, user_id)]>>

(* the record of the user in the list, appended with no wallets if absent *)
LocateOrCreate(ps, user_id) ==
    IF FindRecord(ps, user_id) = 0
    THEN Append(ps, [user_id |-> user_id, wallets |-> EmptyFn])
    ELSE ps

(* _save_user_wallet_balance: reload the store, locate or append the record, *)
(* set one wallet, write the whole store back                                *)
save_user_wallet_balance(ps, user_id, currency_code, new_balance) ==
    LET ps1 == LocateOrCreate(ps, user_id)
        j == FindRecord(ps1, user_id)
        code == normalize_currency_code(currency_code).value
    IN  [ps1 EXCEPT ![j].wallets = SetWallet(ps1[j].wallets, code, new_balance)]

(* a faulty variant: the operands of the funds check are swapped *)
FundsCheckSwapped(amt, before) == before > amt

(* the funds check of sell_currency: amt > before raises InsufficientFundsError *)
InsufficientFunds(amt, before) == amt > before

(* a faulty variant: the operands of the debit are swapped *)
DebitSwapped(before, amt) == amt - before

(* after = before - amt *)
Debit(before, amt) == before - amt

(* a faulty variant: the revenue overwrites the base balance *)
CreditOverwrite(base_before, revenue) == revenue

(* base_after = base_before + revenue *)
Credit(base_before, revenue) == base_before + revenue

(* a faulty variant: a missing wallet counts as an empty one *)
HasWalletOrNone(wallets, code) == TRUE

(* the wallet check of sell_currency: code not in wallets raises ValueError *)
HasWallet(wallets, code) == code \in DOMAIN wallets

(* a faulty variant: the base wallet is credited whatever the code *)
CreditsBaseAlways(code, base) == TRUE

(* if code != base: the revenue goes to the base wallet *)
CreditsBase(code, base) == code # base

(* a faulty variant: zero passes *)
validate_amount_not_negative(amount) == ~(amount < 0)

(* _validate_amount_positive: value <= 0 raises *)
validate_amount_positive(amount) == ~(amount <= 0)

(* a faulty variant: the greatest id is handed out again *)
next_user_id_max(us) ==
    IF us = <<>> THEN 1
    ELSE CHOOSE m \in {us[i].user_id : i \in 1..Len(us)} :
             \A i \in 1..Len(us) : us[i].user_id <= m

(* _next_user_id: max + 1, 1 for an empty list *)
next_user_id(us) ==
    IF us = <<>> THEN 1
    ELSE (CHOOSE m \in {us[i].user_id : i \in 1..Len(us)} :
             \A i \in 1..Len(us) : us[i].user_id <= m) + 1

(* ------------------------------------------------------------------ *)
(* State                                                                *)
(* ------------------------------------------------------------------ *)
VARIABLES
    users,       \* users.json: list of [user_id, username]
    portfolios,  \* portfolios.json: list of [user_id, wallets]
    ratesFile,   \* rates.json
    pc,          \* position of the process: "idle" or "sell_credit"
    ctx,         \* locals of the sell in progress
    pre,         \* the stores as they were when the last call started
    last,        \* the last call and what it returned or raised
    nops,        \* number of calls made so far
    now,         \* the clock, in seconds
    history,     \* exchange_rates.json: list of history records
    wallet,      \* a Wallet object: [currency_code, balance]
    writer,      \* a second process and the file write it is in the middle of
    seen,        \* what a reader of a store file last observed
    procs        \* two processes, each inside a call on a store or between calls

vars == <<users, portfolios, ratesFile, pc, ctx, pre, last, nops, now,
          history, wallet, writer, seen, procs>>

(* the state of the components a call of the core or the reconciler leaves alone *)
others == <<history, wallet, writer, seen, procs>>

(* inputs *)
UserIds == {1, 2}
RawCodes == {USD, <<" ", "e", "u", "r">>, XYZ, <<" ">>}
BuyBases == {USD}
SellBases == {USD, EUR}
BuyAmounts == {-100, 0, 100}
SellAmounts == {-100, 0, 100, 150}
Usernames == {<<"a">>, <<" ", "b">>, <<" ">>}
PasswordLengths == {3, 4}

NoCtx == [user |-> 0, code |-> <<>>, base |-> <<>>, amt |-> 0,
          wallets |-> EmptyFn, before |-> 0, after |-> 0]

NoCall == [op |-> "none", status |-> "none"]

LedgerCall(op, status, user, code, base, amount) ==
    [op |-> op, status |-> status, user |-> user, code |-> code, base |-> base,
     amount |-> amount, before |-> 0, after |-> 0, rate |-> 0, value |-> 0,
     writes |-> 0, available |-> 0, required |-> 0, errcode |-> <<>>]

Stores ==
    [portfolios |-> portfolios, rates |-> ratesFile, users |-> users, history |-> history]

(* Wallet(currency_code, balance=0.0) *)
NewWallet(currency_code) == [currency_code |-> currency_code, balance |-> 0]

(* no write is in progress in the second process *)
IdleWriter == [target |-> "none", pending |-> <<>>]

NothingSeen == [file |-> "none"]

(* the processes that share the store files *)
ProcIds == {1, 2}

(* a process between two calls: nothing is held in memory *)
IdleProc ==
    [at |-> "idle", file |-> EmptyRates, store |-> <<>>, user |-> 0, code |-> <<>>,
     rate |-> 0, updated_at |-> <<>>, source |-> <<>>, after |-> 0, overlapped |-> FALSE]

Init ==
    /\ users = <<>>
    /\ portfolios = <<>>
    /\ ratesFile = EmptyRates
    /\ pc = "idle"
    /\ ctx = NoCtx
    /\ pre = [portfolios |-> <<>>, rates |-> EmptyRates, users |-> <<>>, history |-> <<>>]
    /\ last = NoCall
    /\ nops = 0
    /\ now = StartTime
    /\ history = <<>>
    /\ wallet = NewWallet(USD)
    /\ writer = IdleWriter
    /\ seen = NothingSeen
    /\ procs = [p \in ProcIds |-> IdleProc]

(* a call starts: the process is idle and the stores are remembered *)
BeginCall ==
    /\ pc = "idle"
    /\ nops < MaxOps
    /\ nops' = nops + 1
    /\ pre' = Stores
    /\ UNCHANGED now

StartCall ==
    /\ BeginCall
    /\ UNCHANGED others

(* a second passes between two calls *)
Tick ==
    /\ pc = "idle"
    /\ now < StartTime + MaxTicks
    /\ now' = now + 1
    /\ UNCHANGED <<users, portfolios, ratesFile, pc, ctx, pre, last, nops>>
    /\ UNCHANGED others

(* ------------------------------------------------------------------ *)
(* register_user                                                        *)
(* ------------------------------------------------------------------ *)
register_user(username, pwlen) ==
    LET username_norm == Strip(username)
        user_id == next_user_id(users)
        call(st, uid) == [op |-> "register", status |-> st, user |-> uid,
                          username |-> username_norm]
    IN  /\ StartCall
        /\ Len(users) < MaxUsers
        /\ UNCHANGED <<ratesFile, pc, ctx>>
        /\ IF username_norm = <<>> \/ pwlen < 4
              \/ \E i \in 1..Len(users) : users[i].username = username_norm
           THEN /\ last' = call("ValueError", 0)
                /\ UNCHANGED <<users, portfolios>>
           ELSE /\ users' = Append(users, [user_id |-> user_id, username |-> username_norm])
                /\ portfolios' = Append(portfolios, [user_id |-> user_id, wallets |-> EmptyFn])
                /\ last' = call("ok", user_id)

(* ------------------------------------------------------------------ *)
(* buy_currency                                                         *)
(* ------------------------------------------------------------------ *)
buy_currency(user_id, currency_code, amount, base_currency) ==
    LET nc == normalize_currency_code(currency_code)
        nb == normalize_currency_code(base_currency)
        code == nc.value
        base == nb.value
        wallets == load_user_portfolio(portfolios, user_id)
        before == IF code \in DOMAIN wallets THEN wallets[code] ELSE 0
        after == before + amount
        saved == save_user_wallet_balance(portfolios, user_id, code, after)
        r == get_rate(code, base, ratesFile)
        call(st) == LedgerCall("buy", st, user_id, code, base, amount)
    IN  /\ StartCall
        /\ UNCHANGED <<users, ratesFile, pc, ctx>>
        /\ IF ~nc.ok \/ ~nb.ok
           THEN /\ last' = call("ValueError")
                /\ UNCHANGED portfolios
           ELSE IF ~validate_amount_positive(amount)
           THEN /\ last' = call("InvalidAmount")
                /\ UNCHANGED portfolios
           ELSE /\ portfolios' = saved
                /\ IF r.err # ""
                   THEN last' = [call("RateError") EXCEPT !.writes = 1, !.errcode = r.code]
                   ELSE last' = [call("ok") EXCEPT !.writes = 1, !.before = before,
                                    !.after = after, !.rate = r.rate,
                                    !.value = Times(amount, r.rate)]

(* ------------------------------------------------------------------ *)
(* sell_currency, first part: validation, the funds check and the write *)
(* of the debited code wallet                                           *)
(* ------------------------------------------------------------------ *)
sell_debit(user_id, currency_code, amount, base_currency) ==
    LET nc == normalize_currency_code(currency_code)
        nb == normalize_currency_code(base_currency)
        code == nc.value
        base == nb.value
        wallets == load_user_portfolio(portfolios, user_id)
        before == IF code \in DOMAIN wallets THEN wallets[code] ELSE 0
        after == Debit(before, amount)
        call(st) == LedgerCall("sell", st, user_id, code, base, amount)
        fail(c) == /\ last' = c
                   /\ UNCHANGED <<portfolios, pc, ctx>>
    IN  /\ StartCall
        /\ UNCHANGED <<users, ratesFile>>
        /\ IF ~nc.ok \/ ~nb.ok THEN fail(call("ValueError"))
           ELSE IF ~validate_amount_positive(amount) THEN fail(call("InvalidAmount"))
           ELSE IF ~HasWallet(wallets, code) THEN fail(call("NoWallet"))
           ELSE IF InsufficientFunds(amount, before)
           THEN fail([call("InsufficientFunds") EXCEPT !.available = before,
                         !.required = amount, !.errcode = code])
           ELSE /\ portfolios' = save_user_wallet_balance(portfolios, user_id, code, after)
                /\ pc' = "sell_credit"
                /\ ctx' = [user |-> user_id, code |-> code, base |-> base,
                           amt |-> amount, wallets |-> wallets,
                           before |-> before, after |-> after]
                /\ last' = [call("running") EXCEPT !.writes = 1, !.before = before,
                               !.after = after]

(* sell_currency, second part: the rate, and the write of the credited   *)
(* base wallet when code != base                                         *)
sell_credit ==
    LET r == get_rate(ctx.code, ctx.base, ratesFile)
        revenue == Times(ctx.amt, r.rate)
        base_before == IF ctx.base \in DOMAIN ctx.wallets THEN ctx.wallets[ctx.base] ELSE 0
        base_after == Credit(base_before, revenue)
    IN  /\ pc = "sell_credit"
        /\ pc' = "idle"
        /\ ctx' = NoCtx
        /\ UNCHANGED <<users, ratesFile, pre, nops, now>>
        /\ UNCHANGED others
        /\ IF r.err # ""
           THEN /\ last' = [last EXCEPT !.status = "RateError", !.errcode = r.code]
                /\ UNCHANGED portfolios
           ELSE /\ last' = [last EXCEPT !.status = "ok", !.rate = r.rate,
                               !.value = revenue,
                               !.writes = IF CreditsBase(ctx.code, ctx.base) THEN 2 ELSE 1]
                /\ IF CreditsBase(ctx.code, ctx.base)
                   THEN portfolios' =
                          save_user_wallet_balance(portfolios, ctx.user, ctx.base, base_after)
                   ELSE UNCHANGED portfolios

(* the process stops between the two writes of a sell *)
stop_between_writes ==
    /\ pc = "sell_credit"
    /\ pc' = "idle"
    /\ ctx' = NoCtx
    /\ last' = [last EXCEPT !.status = "stopped"]
    /\ UNCHANGED <<users, portfolios, ratesFile, pre, nops, now>>
    /\ UNCHANGED others

Register == \E n \in Usernames, l \in PasswordLengths : register_user(n, l)
Buy ==
    \E u \in UserIds, c \in RawCodes, a \in BuyAmounts, b \in BuyBases :
        buy_currency(u, c, a, b)
SellDebit ==
    \E u \in UserIds, c \in RawCodes, a \in SellAmounts, b \in SellBases :
        sell_debit(u, c, a, b)

NextLedger == Register \/ Buy \/ SellDebit \/ sell_credit \/ stop_between_writes

SpecLedger == Init /\ [][NextLedger]_vars

(* ------------------------------------------------------------------ *)
(* Ledger calls with code arguments of any shape                        *)
(* ------------------------------------------------------------------ *)
(* currencies._validate_code: strip().upper(), not empty, no space inside, *)
(* 2 to 5 characters; [ok |-> FALSE] is the ValueError                     *)
validate_code(code) ==
    LET value == UpperStr(Strip(code))
    IN  IF value = <<>> THEN [ok |-> FALSE, value |-> <<>>]
        ELSE IF (\E i \in 1..Len(value) : IsSpace(value[i])) \/ ~(2 <= Len(value) /\ Len(value) <= 5)
        THEN [ok |-> FALSE, value |-> value]
        ELSE [ok |-> TRUE, value |-> value]

AnyCodes == {USD, <<" ", "e", "u", "r">>, <<"b">>, <<"U", " ", "S">>, <<" ">>}
AnyAmounts == {100}

BuyAny ==
    \E u \in UserIds, c \in AnyCodes, a \in AnyAmounts, b \in BuyBases :
        buy_currency(u, c, a, b)
SellAny ==
    \E u \in UserIds, c \in AnyCodes, a \in AnyAmounts, b \in BuyBases :
        sell_debit(u, c, a, b)

NextCodes == BuyAny \/ SellAny \/ sell_credit \/ stop_between_writes

SpecCodes == Init /\ [][NextCodes]_vars

(* ------------------------------------------------------------------ *)
(* build_portfolio_report (core/usecases.py)                            *)
(* ------------------------------------------------------------------ *)
ReportBases == {USD, <<" ", "e", "u", "r">>, XYZ, <<" ">>}

(* a faulty variant: a wallet whose rate is not resolved is skipped *)
UnresolvedSkipped(r) == FALSE

(* _get_rate raised: the exception leaves build_portfolio_report *)
Unresolved(r) == r.err # ""

(* items.sort(key=currency_code) *)
SortedCodes(codes) ==
    LET n == Cardinality(codes)
        any == CHOOSE q \in [1..n -> codes] : \A c \in codes : \E i \in 1..n : q[i] = c
    IN  SortSeq(any, LAMBDA x, y : StrGT(y, x))

(* the items of the report for the codes, in the given order *)
RECURSIVE ReportItems(_, _, _, _)
ReportItems(order, wallets, base, rates) ==
    IF order = <<>> THEN <<>>
    ELSE LET code == Head(order)
             rate == get_rate(code, base, rates).rate
         IN  <<[currency_code |-> code, balance |-> wallets[code],
                value_in_base |-> Times(wallets[code], rate)]>>
             \o ReportItems(Tail(order), wallets, base, rates)

(* total += value_in_base *)
RECURSIVE TotalOf(_)
TotalOf(items) ==
    IF items = <<>> THEN 0 ELSE Head(items).value_in_base + TotalOf(Tail(items))

(* build_portfolio_report: the report, or the error that leaves it *)
build_portfolio_report(ps, rates, user_id, base_currency) ==
    LET nb == normalize_currency_code(base_currency)
        base == nb.value
        wallets == load_user_portfolio(ps, user_id)
        failing == {c \in DOMAIN wallets : Unresolved(get_rate(c, base, rates))}
        items == ReportItems(SortedCodes(DOMAIN wallets), wallets, base, rates)
        res(st, its, total, has) ==
            [status |-> st, base |-> base, items |-> its, total |-> total, returned |-> has]
    IN  IF ~nb.ok THEN res("ValueError", <<>>, 0, FALSE)
        ELSE IF Unresolved(get_rate(USD, base, rates))
        THEN res(get_rate(USD, base, rates).err, <<>>, 0, FALSE)
        ELSE IF failing # {}
        THEN res("CurrencyNotFoundError", <<>>, 0, FALSE)
        ELSE res("ok", items, TotalOf(items), TRUE)

Report ==
    \E user_id \in UserIds, base_currency \in ReportBases :
        LET res == build_portfolio_report(portfolios, ratesFile, user_id, base_currency)
        IN  /\ StartCall
            /\ last' = [op |-> "report", status |-> res.status, user |-> user_id,
                        base |-> res.base, items |-> res.items, total |-> res.total,
                        returned |-> res.returned]
            /\ UNCHANGED <<users, portfolios, ratesFile, pc, ctx>>

NextReport == Register \/ Buy \/ Report

SpecReport == Init /\ [][NextReport]_vars

(* ------------------------------------------------------------------ *)
(* Wallet (core/models.py)                                              *)
(* ------------------------------------------------------------------ *)
WalletAmounts == {-50, 0, 50, 100, 150}

(* Wallet._validate_amount: amount <= 0 raises ValueError *)
Wallet_validate_amount(amount) == ~(amount <= 0)

WalletCall(op, status, message, amount) ==
    [op |-> op, status |-> status, message |-> message, amount |-> amount,
     code |-> wallet.currency_code, before |-> wallet.balance]

(* Wallet.deposit *)
Wallet_deposit(amount) ==
    /\ BeginCall
    /\ UNCHANGED <<users, portfolios, ratesFile, pc, ctx, history, writer, seen, procs>>
    /\ IF ~Wallet_validate_amount(amount)
       THEN /\ last' = WalletCall("deposit", "ValueError", "Amount must be positive", amount)
            /\ UNCHANGED wallet
       ELSE /\ wallet' = [wallet EXCEPT !.balance = @ + amount]
            /\ last' = WalletCall("deposit", "ok", "", amount)

(* Wallet.withdraw *)
Wallet_withdraw(amount) ==
    /\ BeginCall
    /\ UNCHANGED <<users, portfolios, ratesFile, pc, ctx, history, writer, seen, procs>>
    /\ IF ~Wallet_validate_amount(amount)
       THEN /\ last' = WalletCall("withdraw", "ValueError", "Amount must be positive", amount)
            /\ UNCHANGED wallet
       ELSE IF amount > wallet.balance
       THEN /\ last' = WalletCall("withdraw", "ValueError", "Insufficient funds", amount)
            /\ UNCHANGED wallet
       ELSE /\ wallet' = [wallet EXCEPT !.balance = @ - amount]
            /\ last' = WalletCall("withdraw", "ok", "", amount)

Deposit == \E amount \in WalletAmounts : Wallet_deposit(amount)
Withdraw == \E amount \in WalletAmounts : Wallet_withdraw(amount)

NextWallet == Deposit \/ Withdraw

SpecWallet == Init /\ [][NextWallet]_vars

(* ------------------------------------------------------------------ *)
(* Ledger properties                                                    *)
(* ------------------------------------------------------------------ *)
LedgerFailures == {"ValueError", "InvalidAmount", "NoWallet", "InsufficientFunds", "RateError"}

(* the user's wallets before the last call and now; balance 0 for no wallet *)
WalletsBefore == load_user_portfolio(pre.portfolios, last.user)
WalletsNow == load_user_portfolio(portfolios, last.user)
BalanceIn(w, code) == IF code \in DOMAIN w THEN w[code] ELSE 0

(* the store ps with the wallets of the user's record (appended if absent) *)
(* overridden at the given codes                                           *)
WithBalances(ps, user_id, changes) ==
    LET i == FindRecord(ps, user_id)
        w0 == IF i = 0 THEN EmptyFn ELSE ps[i].wallets
        w1 == [c \in (DOMAIN w0) \cup (DOMAIN changes) |->
                 IF c \in DOMAIN changes THEN changes[c] ELSE w0[c]]
    IN  IF i = 0 THEN Append(ps, [user_id |-> user_id, wallets |-> w1])
        ELSE [k \in 1..Len(ps) |-> IF k = i THEN [user_id |-> user_id, wallets |-> w1]
                                   ELSE ps[k]]

SellOfOtherBase == last.op = "sell" /\ last.code # <<>> /\ last.code # last.base

DebitApplied == BalanceIn(WalletsNow, last.code) # BalanceIn(WalletsBefore, last.code)
CreditApplied ==
    \/ (last.base \in DOMAIN WalletsNow) # (last.base \in DOMAIN WalletsBefore)
    \/ BalanceIn(WalletsNow, last.base) # BalanceIn(WalletsBefore, last.base)

(* C1: a sell of code != base writes the store once: no persisted state,   *)
(* during or after the sell, has the debit of the code wallet without the  *)
(* credit of the base wallet.                                              *)
C1_SellIsOneWrite ==
    SellOfOtherBase =>
        /\ DebitApplied <=> CreditApplied
        /\ last.status = "ok" => last.writes = 1

(* C2: when buy or sell fails, the portfolio store and the rate snapshot   *)
(* are as they were before the call.                                       *)
C2_FailureLeavesStores ==
    (last.op \in {"buy", "sell"} /\ last.status \in LedgerFailures) =>
        /\ portfolios = pre.portfolios
        /\ ratesFile = pre.rates

(* C3: a sell of more than the balance of the code wallet fails with       *)
(* InsufficientFunds(available = balance, required = amount, code) and     *)
(* writes nothing, also when code = base.                                  *)
C3_SellMoreThanBalance ==
    (/\ last.op = "sell"
     /\ last.code \in DOMAIN WalletsBefore
     /\ last.amount > WalletsBefore[last.code]) =>
        /\ last.status = "InsufficientFunds"
        /\ last.available = WalletsBefore[last.code]
        /\ last.required = last.amount
        /\ last.errcode = last.code
        /\ last.writes = 0
        /\ portfolios = pre.portfolios

C3_Witness ==
    /\ last.op = "sell"
    /\ last.status = "InsufficientFunds"
    /\ last.code = USD /\ last.base = USD
    /\ last.available = 100 /\ last.required = 150
    /\ BalanceIn(WalletsNow, USD) = 100

(* C4: after a successful sell with code != base at rate r the code wallet *)
(* is lower by amount, the base wallet (0 if absent) is higher by          *)
(* amount * r, and nothing else in the store differs.                      *)
C4_SellChangesTwoWallets ==
    (SellOfOtherBase /\ last.status = "ok") =>
        LET r == get_rate(last.code, last.base, pre.rates).rate
            revenue == (last.amount * r) \div UnitRate
        IN  /\ last.rate = r
            /\ last.value = revenue
            /\ portfolios =
                 WithBalances(pre.portfolios, last.user,
                    (last.code :> (WalletsBefore[last.code] - last.amount))
                    @@ (last.base :> (BalanceIn(WalletsBefore, last.base) + revenue)))
            /\ BalanceIn(WalletsNow, last.code) < BalanceIn(WalletsBefore, last.code)
            /\ BalanceIn(WalletsNow, last.base) > BalanceIn(WalletsBefore, last.base)

C4_Witness ==
    /\ SellOfOtherBase /\ last.status = "ok"
    /\ BalanceIn(WalletsBefore, last.base) > 0
    /\ last.rate # UnitRate
    /\ BalanceIn(WalletsNow, last.base) = BalanceIn(WalletsBefore, last.base) + last.value

(* C5: a successful buy creates the code wallet at 0 if absent, sets it to *)
(* old + amount, returns before = old and after = old + amount, writes     *)
(* once and changes no other wallet and no other record.                   *)
C5_BuyDeposits ==
    (last.op = "buy" /\ last.status = "ok") =>
        LET old == BalanceIn(WalletsBefore, last.code)
        IN  /\ last.amount > 0
            /\ last.before = old
            /\ last.after = old + last.amount
            /\ last.writes = 1
            /\ portfolios =
                 WithBalances(pre.portfolios, last.user, (last.code :> (old + last.amount)))

C5_Witness ==
    /\ last.op = "buy" /\ last.status = "ok"
    /\ last.code \notin DOMAIN WalletsBefore
    /\ DOMAIN WalletsBefore # {}
    /\ Len(portfolios) >= 2

(* C6: every wallet balance in the persisted portfolio store is >= 0 after *)
(* any sequence of register, buy and sell calls of one process.            *)
C6_BalancesNonNegative ==
    \A i \in 1..Len(portfolios) :
        \A c \in DOMAIN portfolios[i].wallets : portfolios[i].wallets[c] >= 0

C6_Witness ==
    /\ last.op = "sell" /\ last.status = "ok"
    /\ last.before > 0 /\ last.after = 0
    /\ BalanceIn(WalletsNow, last.code) = 0
    /\ Len(users) >= 1

(* C26: a sell for a user who has no wallet for the code fails, and the   *)
(* portfolio store is unchanged: no wallet is created, nothing is written. *)
C26_SellWithoutWallet ==
    (last.op = "sell" /\ last.code \notin DOMAIN WalletsBefore)
        => /\ last.status \in {"ValueError", "InvalidAmount", "NoWallet"}
           /\ (last.code # <<>> /\ last.base # <<>> /\ last.amount > 0
                  => last.status = "NoWallet")
           /\ portfolios = pre.portfolios
           /\ last.writes = 0

C26_Witness ==
    /\ last.op = "sell"
    /\ last.status = "NoWallet"
    /\ WalletsBefore # EmptyFn
    /\ last.code \notin DOMAIN WalletsNow
    /\ portfolios = pre.portfolios

(* ------------------------------------------------------------------ *)
(* Rate snapshot: upsert_snapshot_pair (parser_service/storage.py)      *)
(* ------------------------------------------------------------------ *)
BTC_USD == PairKey(BTC, USD)
EUR_USD == PairKey(EUR, USD)

Pairs == {BTC_USD, EUR_USD}
RateInputs == {-100, 0, 5000000, 5100000}
TimestampInputs == {<<" ">>, <<"1", "0">>, <<"9">>}
SourceInputs == {<<>>, <<"A">>, <<"B">>}

(* load_snapshot: the "pairs" and "last_refresh" keys of the file *)
load_snapshot(file) == [pairs |-> file.pairs, last_refresh |-> file.last_refresh]

(* a faulty variant: a rate of zero passes *)
PositiveRateOrZero(rate) == rate >= 0

(* float(rate) <= 0 raises *)
PositiveRate(rate) == rate > 0

(* a faulty variant: the source is not validated *)
ValidArgsNoSource(rate, updated_at, source) == rate > 0 /\ Strip(updated_at) # <<>>

(* the argument checks of upsert_snapshot_pair *)
ValidArgs(rate, updated_at, source) ==
    /\ PositiveRate(rate)
    /\ Strip(updated_at) # <<>>
    /\ Strip(source) # <<>>

(* a faulty variant: an equal updated_at replaces too *)
NewerOrEqual(updated_at, old_updated) == ~StrGT(old_updated, updated_at)

(* updated_at > old_updated, on strings *)
Newer(updated_at, old_updated) == StrGT(updated_at, old_updated)

(* a faulty variant: the stored entry is replaced whatever its updated_at *)
ShouldReplaceAlways(pairs, pair, updated_at) == TRUE

(* the pair is absent, or updated_at > old_updated *)
ShouldReplace(pairs, pair, updated_at) ==
    pair \notin DOMAIN pairs \/ Newer(updated_at, pairs[pair].updated_at)

(* a faulty variant: the source of the entry is left empty *)
EntryNoSource(rate, updated_at, source) ==
    [rate |-> rate, updated_at |-> updated_at, source |-> <<>>]

(* {"rate": float(rate), "updated_at": updated_at, "source": source} *)
Entry(rate, updated_at, source) ==
    [rate |-> rate, updated_at |-> updated_at, source |-> source]

(* a faulty variant: last_refresh is not advanced *)
WrittenSnapshotKeepRefresh(snap, pairs, updated_at) ==
    [pairs |-> pairs, last_refresh |-> snap.last_refresh, top |-> EmptyFn, source |-> None]

(* the file after the write: the snapshot's two keys, nothing else *)
WrittenSnapshot(snap, pairs, updated_at) ==
    [pairs |-> pairs, last_refresh |-> Some(updated_at), top |-> EmptyFn, source |-> None]

(* upsert_snapshot_pair on the file: what it returns or raises, and the file after it *)
upsert_snapshot_pair(file, pair, rate, updated_at, source) ==
    LET snap == load_snapshot(file)
        pairs == snap.pairs
        changed == ShouldReplace(pairs, pair, updated_at)
        pairs1 == [k \in (DOMAIN pairs) \cup {pair} |->
                     IF k = pair THEN Entry(rate, updated_at, source) ELSE pairs[k]]
    IN  IF ~ValidArgs(rate, updated_at, source)
        THEN [status |-> "ValueError", changed |-> FALSE, writes |-> 0, file |-> file]
        ELSE IF changed
        THEN [status |-> "ok", changed |-> TRUE, writes |-> 1,
              file |-> WrittenSnapshot(snap, pairs1, updated_at)]
        ELSE [status |-> "ok", changed |-> FALSE, writes |-> 0, file |-> file]

UpsertCall(pair, rate, updated_at, source) ==
    LET res == upsert_snapshot_pair(ratesFile, pair, rate, updated_at, source)
    IN  /\ StartCall
        /\ ratesFile' = res.file
        /\ last' = [op |-> "upsert", status |-> res.status, pair |-> pair,
                    rate |-> rate, updated_at |-> updated_at, source |-> source,
                    changed |-> res.changed, writes |-> res.writes]
        /\ UNCHANGED <<users, portfolios, pc, ctx>>

Upsert ==
    \E pair \in Pairs, rate \in RateInputs, updated_at \in TimestampInputs,
       source \in SourceInputs :
        UpsertCall(pair, rate, updated_at, source)

NextCache == Upsert

SpecCache == Init /\ [][NextCache]_vars

(* ------------------------------------------------------------------ *)
(* Writes of the store files as a second process sees them              *)
(* (core/utils.py save_json, parser_service/storage.py)                 *)
(* ------------------------------------------------------------------ *)
(* A file is modelled by what a reader loads from it. The operators give  *)
(* the contents the target path goes through during one write.            *)

(* path.write_text(data): opening the path truncates it, the data follows; *)
(* empty is what the loader makes of the empty text                        *)
write_text(empty, data) == <<empty, data>>

(* tmp_path.write_text(data); tmp_path.replace(path): the path changes once *)
write_then_replace(empty, data) == <<data>>

(* save_json of the core *)
save_json(empty, data) == write_text(empty, data)

(* a faulty variant: the snapshot is written in place *)
persist_in_place(empty, snap) == write_text(empty, snap)

(* the write of upsert_snapshot_pair *)
persist_snapshot(empty, snap) == write_then_replace(empty, snap)

(* load_json(path, default=[]) of an empty text *)
EmptyList == <<>>

WriterRates == {5000000, 5100000}
WriterTimestamps == {<<"1", "0">>, <<"9">>}
WriterSource == <<"A">>
WriterCodes == {USD, EUR}

(* the second process is inside a write of the target file *)
Writing(target, pending, before, after) ==
    [target |-> target, pending |-> pending, before |-> before, after |-> after]

(* the second process starts upsert_snapshot_pair: it loads the snapshot  *)
(* and, if the pair changes, goes on to write it                          *)
WriterUpsert ==
    \E pair \in Pairs, rate \in WriterRates, updated_at \in WriterTimestamps :
        LET res == upsert_snapshot_pair(ratesFile, pair, rate, updated_at, WriterSource)
        IN  /\ writer.target = "none"
            /\ BeginCall
            /\ res.writes = 1
            /\ writer' = Writing("rates", persist_snapshot(EmptyRates, res.file),
                                  ratesFile, res.file)
            /\ last' = [op |-> "writer_upsert", status |-> "running", pair |-> pair]
            /\ UNCHANGED <<users, portfolios, ratesFile, pc, ctx, history, wallet, seen, procs>>

(* the second process starts the _save_user_wallet_balance of a buy *)
WriterBuy ==
    \E user_id \in UserIds, code \in WriterCodes :
        LET wallets == load_user_portfolio(portfolios, user_id)
            before == IF code \in DOMAIN wallets THEN wallets[code] ELSE 0
            saved == save_user_wallet_balance(portfolios, user_id, code, before + 100)
        IN  /\ writer.target = "none"
            /\ BeginCall
            /\ writer' = Writing("portfolios", save_json(EmptyList, saved),
                                  portfolios, saved)
            /\ last' = [op |-> "writer_buy", status |-> "running", user |-> user_id,
                        code |-> code]
            /\ UNCHANGED <<users, portfolios, ratesFile, pc, ctx, history, wallet, seen, procs>>

(* the next change of the target path made by the write in progress *)
WriteStep ==
    /\ writer.target # "none"
    /\ IF writer.target = "rates"
       THEN ratesFile' = Head(writer.pending) /\ UNCHANGED portfolios
       ELSE portfolios' = Head(writer.pending) /\ UNCHANGED ratesFile
    /\ writer' = IF Len(writer.pending) = 1 THEN IdleWriter
                  ELSE [writer EXCEPT !.pending = Tail(@)]
    /\ last' = [last EXCEPT !.status = IF Len(writer.pending) = 1 THEN "ok" ELSE @]
    /\ UNCHANGED <<users, pc, ctx, pre, nops, now, history, wallet, seen, procs>>

(* what a read sees, and the write that was in progress at that moment *)
Observation(file, content) ==
    [file |-> file, content |-> content,
     during |-> writer.target = file,
     before |-> IF writer.target = file THEN writer.before ELSE content,
     after |-> IF writer.target = file THEN writer.after ELSE content]

(* this process reads rates.json with load_snapshot *)
ReadSnapshot ==
    /\ seen' = Observation("rates", load_snapshot(ratesFile))
    /\ UNCHANGED <<users, portfolios, ratesFile, pc, ctx, pre, last, nops, now,
                   history, wallet, writer, procs>>

(* this process reads portfolios.json with _load_portfolios *)
ReadPortfolios ==
    /\ seen' = Observation("portfolios", portfolios)
    /\ UNCHANGED <<users, portfolios, ratesFile, pc, ctx, pre, last, nops, now,
                   history, wallet, writer, procs>>

NextSnapshotWriter == WriterUpsert \/ WriteStep \/ ReadSnapshot

SpecSnapshotWriter == Init /\ [][NextSnapshotWriter]_vars

NextStoreWriter == WriterBuy \/ WriteStep \/ ReadPortfolios

SpecStoreWriter == Init /\ [][NextStoreWriter]_vars

(* ------------------------------------------------------------------ *)
(* Two processes calling upsert_snapshot_pair on the same rates.json:   *)
(* no lock is taken between the load and the write                      *)
(* ------------------------------------------------------------------ *)
RacePairs == {BTC_USD}
RaceRates == {5000000, 5100000}
RaceTimestamps == {<<"1", "0">>, <<"9">>}
RaceSource == <<"A">>

(* process p takes a step as `mine`: every other process that is inside a *)
(* call now shares a part of its call with p                              *)
Overlap(p, mine) ==
    [q \in ProcIds |->
        IF q = p THEN mine
        ELSE IF procs[q].at # "idle" THEN [procs[q] EXCEPT !.overlapped = TRUE]
        ELSE procs[q]]

OthersInCall(p) == \E q \in ProcIds \ {p} : procs[q].at # "idle"

(* process p enters upsert_snapshot_pair: snap = load_snapshot(path) *)
upsert_load(p, pair, rate, updated_at, source) ==
    /\ procs[p].at = "idle"
    /\ BeginCall
    /\ procs' = Overlap(p, [IdleProc EXCEPT !.at = "upsert", !.file = ratesFile,
                                             !.code = pair, !.rate = rate,
                                             !.updated_at = updated_at,
                                             !.source = source,
                                             !.overlapped = OthersInCall(p)])
    /\ last' = [op |-> "upsert_load", status |-> "running", proc |-> p]
    /\ UNCHANGED <<users, portfolios, ratesFile, pc, ctx, history, wallet, writer, seen>>

(* process p goes on from the snapshot it holds: the argument checks, the *)
(* comparison with the stored entry and the write                         *)
upsert_finish(p) ==
    LET me == procs[p]
        res == upsert_snapshot_pair(me.file, me.code, me.rate, me.updated_at, me.source)
    IN  /\ me.at = "upsert"
        /\ ratesFile' = IF res.writes = 1 THEN res.file ELSE ratesFile
        /\ procs' = Overlap(p, IdleProc)
        /\ last' = [op |-> "upsert_finish", status |-> res.status, proc |-> p,
                    pair |-> me.code, updated_at |-> me.updated_at,
                    changed |-> res.changed, overlapped |-> me.overlapped,
                    replaced |-> ratesFile.pairs]
        /\ UNCHANGED <<users, portfolios, pc, ctx, pre, nops, now,
                       history, wallet, writer, seen>>

UpsertLoad ==
    \E p \in ProcIds, pair \in RacePairs, rate \in RaceRates, updated_at \in RaceTimestamps :
        upsert_load(p, pair, rate, updated_at, RaceSource)

UpsertFinish == \E p \in ProcIds : upsert_finish(p)

NextSnapshotRace == UpsertLoad \/ UpsertFinish

SpecSnapshotRace == Init /\ [][NextSnapshotRace]_vars

(* ------------------------------------------------------------------ *)
(* Two processes calling buy_currency on the same portfolios.json       *)
(* ------------------------------------------------------------------ *)
RaceCodes == {USD, EUR}
RaceAmounts == {100}

(* process p enters buy_currency: the checks, wallets = _load_user_portfolio *)
(* and after = before + amt                                                 *)
buy_read(p, user_id, currency_code, amount) ==
    LET code == normalize_currency_code(currency_code).value
        wallets == load_user_portfolio(portfolios, user_id)
        before == IF code \in DOMAIN wallets THEN wallets[code] ELSE 0
    IN  /\ procs[p].at = "idle"
        /\ BeginCall
        /\ validate_amount_positive(amount)
        /\ procs' = Overlap(p, [IdleProc EXCEPT !.at = "buy_read", !.user = user_id,
                                                 !.code = code, !.rate = amount,
                                                 !.after = before + amount,
                                                 !.overlapped = OthersInCall(p)])
        /\ last' = [op |-> "buy_read", status |-> "running", proc |-> p]
        /\ UNCHANGED <<users, portfolios, ratesFile, pc, ctx, history, wallet, writer, seen>>

(* _save_user_wallet_balance, its own portfolios = _load_portfolios() *)
save_load(p) ==
    /\ procs[p].at = "buy_read"
    /\ procs' = Overlap(p, [procs[p] EXCEPT !.at = "save_loaded", !.store = portfolios])
    /\ UNCHANGED <<users, portfolios, ratesFile, pc, ctx, pre, last, nops, now,
                   history, wallet, writer, seen>>

(* _save_user_wallet_balance, the rest: the wallet is set in the list it *)
(* holds and the whole list is written                                   *)
save_write(p) ==
    LET me == procs[p]
    IN  /\ me.at = "save_loaded"
        /\ portfolios' = save_user_wallet_balance(me.store, me.user, me.code, me.after)
        /\ procs' = Overlap(p, IdleProc)
        /\ last' = [op |-> "buy_write", status |-> "ok", proc |-> p, user |-> me.user,
                    code |-> me.code, amount |-> me.rate, after |-> me.after,
                    overlapped |-> me.overlapped, replaced |-> portfolios]
        /\ UNCHANGED <<users, ratesFile, pc, ctx, pre, nops, now,
                       history, wallet, writer, seen>>

BuyRead ==
    \E p \in ProcIds, u \in UserIds, c \in RaceCodes, a \in RaceAmounts : buy_read(p, u, c, a)

SaveLoad == \E p \in ProcIds : save_load(p)

SaveWrite == \E p \in ProcIds : save_write(p)

NextStoreRace == BuyRead \/ SaveLoad \/ SaveWrite

SpecStoreRace == Init /\ [][NextStoreRace]_vars

(* ------------------------------------------------------------------ *)
(* load_snapshot on a document that the program did not write           *)
(* ------------------------------------------------------------------ *)
(* JSON values, as json.loads returns them *)
JNull == [json |-> "null"]
JArray == [json |-> "array"]
JNumber(n) == [json |-> "number", value |-> n]
JString(text) == [json |-> "string", text |-> text]
JObject(items) == [json |-> "object", items |-> items]

(* an entry of "pairs" with the given rate *)
DocEntry(rate) ==
    [rate |-> rate, updated_at |-> JString(<<"1", "0", "Z">>), source |-> JString(<<"A">>)]

DocRates == {JNumber(5000000), JNumber(-100), JString(<<"a", "b", "c">>)}
DocPairs ==
    {JNull, JArray, JObject(EmptyFn)}
    \cup {JObject(BTC_USD :> DocEntry(r)) : r \in DocRates}
    \cup {JObject((BTC_USD :> DocEntry(r)) @@ (EUR_USD :> DocEntry(q))) :
             r \in DocRates, q \in DocRates}
DocRefreshes == {JNull, JNumber(10), JString(<<"1", "0", "Z">>)}

(* the documents rates.json may hold: a list, or an object with the two keys *)
SnapshotDocs ==
    {JArray} \cup
    {JObject([pairs |-> p, last_refresh |-> l]) : p \in DocPairs, l \in DocRefreshes}

(* load_snapshot on the document: the shape checks, then the two keys as they are *)
load_snapshot_json(doc) ==
    LET failed == [status |-> "ValueError", pairs |-> EmptyFn, last_refresh |-> JNull]
    IN  IF doc.json # "object" THEN failed
        ELSE IF doc.items.pairs.json \notin {"null", "object"} THEN failed
        ELSE IF doc.items.last_refresh.json \notin {"null", "string"} THEN failed
        ELSE [status |-> "ok",
              pairs |-> IF doc.items.pairs.json = "null" THEN EmptyFn
                        ELSE doc.items.pairs.items,
              last_refresh |-> doc.items.last_refresh]

LoadSnapshot ==
    \E doc \in SnapshotDocs :
        LET res == load_snapshot_json(doc)
        IN  /\ StartCall
            /\ last' = [op |-> "load_snapshot", doc |-> doc, status |-> res.status,
                        pairs |-> res.pairs, last_refresh |-> res.last_refresh]
            /\ UNCHANGED <<users, portfolios, ratesFile, pc, ctx>>

NextLoad == LoadSnapshot

SpecLoad == Init /\ [][NextLoad]_vars

(* ------------------------------------------------------------------ *)
(* History log: append_history_record (parser_service/storage.py)       *)
(* ------------------------------------------------------------------ *)
(* record.get("id"): absent, a number, or a string *)
NoId == [kind |-> "missing", text |-> <<>>]
NumberId == [kind |-> "number", text |-> <<>>]
StringId(text) == [kind |-> "string", text |-> text]

RecordIds == {NoId, NumberId, StringId(<<>>), StringId(<<" ">>),
              StringId(<<"a">>), StringId(<<"b">>)}
RecordPayloads == {1, 2}

(* the id check: not isinstance(rec_id, str) or rec_id.strip() == "" raises *)
ValidRecordId(rec_id) == rec_id.kind = "string" /\ Strip(rec_id.text) # <<>>

(* a faulty variant: no record is ever taken for a duplicate *)
IdPresentNever(log, rec_id) == FALSE

(* any(x.get("id") == rec_id for x in history) *)
IdPresent(log, rec_id) == \E i \in 1..Len(log) : log[i].id = rec_id

(* append_history_record: what it raises, the number of writes, the log after it *)
append_history_record(log, record) ==
    IF ~ValidRecordId(record.id)
    THEN [status |-> "ValueError", writes |-> 0, log |-> log]
    ELSE IF IdPresent(log, record.id)
    THEN [status |-> "ok", writes |-> 0, log |-> log]
    ELSE [status |-> "ok", writes |-> 1, log |-> Append(log, record)]

AppendHistory ==
    \E id \in RecordIds, payload \in RecordPayloads :
        LET record == [id |-> id, payload |-> payload]
            res == append_history_record(history, record)
        IN  /\ BeginCall
            /\ history' = res.log
            /\ last' = [op |-> "append_history", status |-> res.status,
                        record |-> record, writes |-> res.writes]
            /\ UNCHANGED <<users, portfolios, ratesFile, pc, ctx, wallet, writer, seen, procs>>

NextHistory == AppendHistory

SpecHistory == Init /\ [][NextHistory]_vars

(* ------------------------------------------------------------------ *)
(* Rate resolver: get_rate_with_cache (core/usecases.py)                *)
(* ------------------------------------------------------------------ *)
FromCodes == {USD, <<" ", "e", "u", "r">>, XYZ, <<" ">>}
ToCodes == {USD, EUR}
MaxAgeInputs == {None, Some(1)}

Stub == <<"S", "t", "u", "b">>

(* 1.0 / rate, kept to the 1/100 resolution of the model *)
Reciprocal(rate) == (UnitRate * UnitRate) \div rate

(* rates[pair] = {"rate": rate, "updated_at": updated_at} *)
CachedEntry(rate, updated_at) == [rate |-> rate, updated_at |-> updated_at]

(* get_rate_with_cache on the file at the given clock: what it returns   *)
(* or raises, the number of reads and writes of rates.json, and the file *)
(* after it                                                              *)
get_rate_with_cache(file, from_code, to_code, max_age, clock) ==
    LET nf == normalize_currency_code(from_code)
        nt == normalize_currency_code(to_code)
        f == nf.value
        t == nt.value
        max_age_seconds == IF max_age = None THEN RATES_TTL_SECONDS ELSE max_age[1]
        pair == PairKey(f, t)
        cached == IF pair \in DOMAIN file.top THEN Some(file.top[pair]) ELSE None
        hit == /\ cached # None
               /\ cached[1].rate > 0
               /\ is_fresh(cached[1].updated_at, max_age_seconds, clock)
        r == get_rate(f, t, file)
        inner_reads == IF f = t THEN 0 ELSE 1
        updated_at == isoformat(clock)
        res(st, origin, rate, upd, rev, reads, writes, file1) ==
            [status |-> st, origin |-> origin, from |-> f, to |-> t,
             max_age_seconds |-> max_age_seconds, rate |-> rate, updated_at |-> upd,
             reverse_rate |-> rev, reads |-> reads, writes |-> writes, file |-> file1]
    IN  IF ~nf.ok \/ ~nt.ok
        THEN res("ValueError", "none", 0, <<>>, 0, 0, 0, file)
        ELSE IF hit
        THEN res("ok", "cache", cached[1].rate, cached[1].updated_at,
                 Reciprocal(cached[1].rate), 1, 0, file)
        ELSE IF r.err # ""
        THEN res(r.err, "none", 0, <<>>, 0, 1 + inner_reads, 0, file)
        ELSE res("ok", IF f # t /\ pair \in DOMAIN file.top /\ file.top[pair].rate > 0
                       THEN "stale" ELSE "stub",
                 r.rate, updated_at, IF r.rate # 0 THEN Reciprocal(r.rate) ELSE 0,
                 1 + inner_reads, 1,
                 [pairs |-> file.pairs,
                  last_refresh |-> Some(updated_at),
                  top |-> [k \in (DOMAIN file.top) \cup {pair} |->
                             IF k = pair THEN CachedEntry(r.rate, updated_at)
                             ELSE file.top[k]],
                  source |-> Some(Stub)])

GetRate ==
    \E from_code \in FromCodes, to_code \in ToCodes, max_age \in MaxAgeInputs :
        LET res == get_rate_with_cache(ratesFile, from_code, to_code, max_age, now)
        IN  /\ StartCall
            /\ ratesFile' = res.file
            /\ last' = [op |-> "get_rate", status |-> res.status, origin |-> res.origin,
                        from |-> res.from, to |-> res.to,
                        max_age_seconds |-> res.max_age_seconds, rate |-> res.rate,
                        updated_at |-> res.updated_at, reverse_rate |-> res.reverse_rate,
                        reads |-> res.reads, writes |-> res.writes, at |-> now]
            /\ UNCHANGED <<users, portfolios, pc, ctx>>

(* ------------------------------------------------------------------ *)
(* Reconciler: RatesUpdater.run_update (parser_service/updater.py) and  *)
(* RatesStorage.write_cache (parser_service/storage.py)                 *)
(* ------------------------------------------------------------------ *)
CoinGecko == <<"C", "o", "i", "n", "G", "e", "c", "k", "o">>
ExchangeRateApi == <<"E", "x", "c", "h", "a", "n", "g", "e", "R", "a", "t", "e", "-", "A", "P", "I">>

(* the clients of a run, in the iteration order of the dict *)
ClientConfigs == {<<CoinGecko, ExchangeRateApi>>}

(* what fetch_rates of one client does: raises ApiRequestError, or returns *)
(* a mapping pair -> rate                                                  *)
FetchFailed == [ok |-> FALSE, rates |-> EmptyFn]
Fetched(rates) == [ok |-> TRUE, rates |-> rates]
FetchOutcomes ==
    {FetchFailed,
     Fetched(EmptyFn),
     Fetched(BTC_USD :> 6000000),
     Fetched((BTC_USD :> 5900000) @@ (EUR_USD :> 110)),
     Fetched(EUR_USD :> 0)}

(* the iteration order of the items of a fetched mapping *)
PairOrder == <<BTC_USD, EUR_USD>>
ItemsOf(rates) == SelectSeq(PairOrder, LAMBDA k : k \in DOMAIN rates)

(* a faulty variant: the first source to return a pair keeps it *)
MergeKeepFirst(combined, pair, entry) ==
    IF pair \in DOMAIN combined THEN combined
    ELSE [k \in (DOMAIN combined) \cup {pair} |-> IF k = pair THEN entry ELSE combined[k]]

(* combined[pair] = {...} *)
MergePair(combined, pair, entry) ==
    [k \in (DOMAIN combined) \cup {pair} |-> IF k = pair THEN entry ELSE combined[k]]

(* a faulty variant: a failed fetch ends the loop over the clients *)
StopAfterFailure(rest) == <<>>

(* the continue after a failed fetch: the loop goes on with the other clients *)
RestAfterFailure(rest) == rest

(* a faulty variant: the run never counts as empty *)
NeverEmpty(combined) == FALSE

(* if not combined: nothing was fetched from any source *)
NothingFetched(combined) == combined = EmptyFn

(* what str(exc) of a failed fetch is in the model *)
FetchError == "fetch failed"

(* a faulty variant: a failed fetch is recorded as a success *)
FailedMetaAsOk(error) == [ok |-> TRUE, count |-> 0]

(* sources_meta[source_name] of a failed fetch *)
FailedMeta(error) == [ok |-> FALSE, error |-> error, count |-> 0]

(* sources_meta[source_name] of a successful fetch *)
OkMeta(count) == [ok |-> TRUE, count |-> count]

(* a faulty variant: every source stamps its entries on its own *)
FetchedEntryOwnTime(rate, refresh_ts, source_name) ==
    Entry(rate, IF source_name = CoinGecko THEN refresh_ts ELSE Append(refresh_ts, "Z"),
          source_name)

(* combined[pair] = {"rate": float(rate), "updated_at": refresh_ts, "source": source_name} *)
FetchedEntry(rate, refresh_ts, source_name) == Entry(rate, refresh_ts, source_name)

(* the pairs of one successful source, merged into the run's state *)
RECURSIVE MergeItems(_, _, _, _, _)
MergeItems(acc, items, rates, refresh_ts, source_name) ==
    IF items = <<>> THEN acc
    ELSE LET pair == Head(items)
             entry == FetchedEntry(rates[pair], refresh_ts, source_name)
         IN  MergeItems(
                [acc EXCEPT !.combined = MergePair(acc.combined, pair, entry),
                            !.order = IF pair \in DOMAIN acc.combined THEN acc.order
                                      ELSE Append(acc.order, pair)],
                Tail(items), rates, refresh_ts, source_name)

(* the loop of run_update over the clients *)
RECURSIVE FetchAll(_, _, _, _)
FetchAll(acc, names, outcomes, refresh_ts) ==
    IF names = <<>> THEN acc
    ELSE LET name == Head(names)
             out == outcomes[name]
         IN  IF ~out.ok
             THEN FetchAll(
                    [acc EXCEPT !.had_errors = TRUE,
                                !.sources = (name :> FailedMeta(FetchError)) @@ acc.sources,
                                !.asked = Append(acc.asked, name)],
                    RestAfterFailure(Tail(names)), outcomes, refresh_ts)
             ELSE FetchAll(
                    [MergeItems(acc, ItemsOf(out.rates), out.rates, refresh_ts, name)
                       EXCEPT !.sources = (name :> OkMeta(Len(ItemsOf(out.rates))))
                                          @@ acc.sources,
                              !.asked = Append(acc.asked, name)],
                    Tail(names), outcomes, refresh_ts)

(* the checks of write_cache on one item of the payload *)
CacheItemValid(pair, item) ==
    /\ Strip(pair) # <<>>
    /\ item.rate > 0
    /\ Strip(item.updated_at) # <<>>
    /\ Strip(item.source) # <<>>

(* RatesStorage.write_cache: one upsert_snapshot_pair per valid item; the *)
(* file after it, the number of pairs that changed, the number of writes  *)
RECURSIVE write_cache(_, _, _)
write_cache(file, order, pairs) ==
    IF order = <<>> THEN [file |-> file, updated_count |-> 0, writes |-> 0]
    ELSE LET pair == Head(order)
             item == pairs[pair]
         IN  IF ~CacheItemValid(pair, item) THEN write_cache(file, Tail(order), pairs)
             ELSE LET up == upsert_snapshot_pair(file, pair, item.rate, item.updated_at,
                                                 item.source)
                      rest == write_cache(up.file, Tail(order), pairs)
                  IN  [file |-> rest.file,
                       updated_count |-> rest.updated_count + (IF up.changed THEN 1 ELSE 0),
                       writes |-> rest.writes + up.writes]

(* UpdateResult.updated = len(combined) *)
UpdatedField(combined, updated_count) == Cardinality(DOMAIN combined)

(* run_update with the given clients and what their fetch_rates do *)
run_update(file, names, outcomes, clock) ==
    LET refresh_ts == utc_iso(clock)
        acc == FetchAll([combined |-> EmptyFn, order |-> <<>>, sources |-> EmptyFn,
                         had_errors |-> FALSE, asked |-> <<>>],
                        names, outcomes, refresh_ts)
        wc == write_cache(file, acc.order, acc.combined)
        res(st, updated, changed, writes, file1) ==
            [status |-> st, updated |-> updated, last_refresh |-> refresh_ts,
             sources |-> acc.sources, had_errors |-> acc.had_errors,
             combined |-> acc.combined, asked |-> acc.asked,
             updated_count |-> changed, writes |-> writes, file |-> file1]
    IN  IF NothingFetched(acc.combined)
        THEN res("ApiRequestError", 0, 0, 0, file)
        ELSE res("ok", UpdatedField(acc.combined, wc.updated_count), wc.updated_count,
                 wc.writes, wc.file)

RunUpdateCall(names, outcomes) ==
    LET res == run_update(ratesFile, names, outcomes, now)
    IN  /\ StartCall
        /\ ratesFile' = res.file
        /\ last' = [op |-> "run_update", status |-> res.status, clients |-> names,
                    outcomes |-> outcomes, updated |-> res.updated,
                    last_refresh |-> res.last_refresh, sources |-> res.sources,
                    had_errors |-> res.had_errors, combined |-> res.combined,
                    asked |-> res.asked, updated_count |-> res.updated_count,
                    writes |-> res.writes]
        /\ UNCHANGED <<users, portfolios, pc, ctx>>

RunUpdate ==
    \E names \in ClientConfigs :
      \E outcomes \in [{names[i] : i \in 1..Len(names)} -> FetchOutcomes] :
        RunUpdateCall(names, outcomes)

NextUpdater == RunUpdate \/ Tick

SpecUpdater == Init /\ [][NextUpdater]_vars

(* upserts and runs on the same snapshot, with rates of any sign *)
AnyArgs ==
    {[rate |-> 5000000, updated_at |-> <<"9">>, source |-> <<"A">>],
     [rate |-> 0, updated_at |-> <<"9">>, source |-> <<"A">>],
     [rate |-> -100, updated_at |-> <<"9">>, source |-> <<"A">>],
     [rate |-> 5100000, updated_at |-> <<" ">>, source |-> <<"A">>],
     [rate |-> 5100000, updated_at |-> <<"9", "9">>, source |-> <<" ">>]}
AnyOutcomes ==
    {FetchFailed,
     Fetched(BTC_USD :> -100),
     Fetched((BTC_USD :> 6000000) @@ (EUR_USD :> 0))}

UpsertAny == \E pair \in Pairs, a \in AnyArgs : UpsertCall(pair, a.rate, a.updated_at, a.source)

RunUpdateAny ==
    \E names \in ClientConfigs :
      \E outcomes \in [{names[i] : i \in 1..Len(names)} -> AnyOutcomes] :
        RunUpdateCall(names, outcomes)

NextSnapshot == UpsertAny \/ RunUpdateAny

SpecSnapshot == Init /\ [][NextSnapshot]_vars

NextResolver == GetRate \/ Tick

SpecResolver == Init /\ [][NextResolver]_vars

(* the resolver and the reconciler on the same rates.json, within one second *)
NextRates == GetRate \/ RunUpdate

SpecRates == Init /\ [][NextRates]_vars

Next == NextLedger \/ NextCodes \/ NextReport \/ NextWallet \/ NextCache \/ NextSnapshotWriter \/ NextStoreWriter \/ NextSnapshotRace \/ NextStoreRace
        \/ NextLoad \/ NextHistory \/ NextUpdater \/ NextSnapshot \/ NextResolver \/ NextRates

Spec == Init /\ [][Next]_vars

(* ------------------------------------------------------------------ *)
(* Rate snapshot properties                                             *)
(* ------------------------------------------------------------------ *)
StoredBefore == last.pair \in DOMAIN pre.rates.pairs
OldUpdatedAt == pre.rates.pairs[last.pair].updated_at
OthersUnchanged ==
    /\ (DOMAIN ratesFile.pairs) \ {last.pair} = (DOMAIN pre.rates.pairs) \ {last.pair}
    /\ \A k \in (DOMAIN ratesFile.pairs) \ {last.pair} :
          ratesFile.pairs[k] = pre.rates.pairs[k]

(* C7: an upsert of a stored pair with an updated_at that is not newer     *)
(* than the stored one (string order) leaves the whole file as it was and  *)
(* writes nothing; with arguments that pass validation it returns          *)
(* changed = False.                                                        *)
C7_OlderOrEqualIsNoOp ==
    (last.op = "upsert" /\ StoredBefore /\ ~StrGT(last.updated_at, OldUpdatedAt)) =>
        /\ ratesFile = pre.rates
        /\ last.writes = 0
        /\ (last.rate > 0 /\ Strip(last.updated_at) # <<>> /\ Strip(last.source) # <<>>)
              => (last.status = "ok" /\ ~last.changed)

C7_Witness ==
    /\ last.op = "upsert" /\ last.status = "ok" /\ ~last.changed
    /\ last.pair = BTC_USD
    /\ last.rate = 5100000
    /\ ratesFile.pairs[BTC_USD].rate = 5000000
    /\ last.updated_at = ratesFile.pairs[BTC_USD].updated_at

(* C8: an upsert with valid arguments of a pair that is absent, or stored  *)
(* with a strictly older updated_at, returns changed = True and stores     *)
(* exactly the given rate, updated_at and source; other pairs are          *)
(* unchanged.                                                              *)
C8_NewerOrAbsentReplaces ==
    (/\ last.op = "upsert"
     /\ last.rate > 0 /\ Strip(last.updated_at) # <<>> /\ Strip(last.source) # <<>>
     /\ (~StoredBefore \/ StrGT(last.updated_at, OldUpdatedAt))) =>
        /\ last.status = "ok"
        /\ last.changed
        /\ last.pair \in DOMAIN ratesFile.pairs
        /\ ratesFile.pairs[last.pair].rate = last.rate
        /\ ratesFile.pairs[last.pair].updated_at = last.updated_at
        /\ ratesFile.pairs[last.pair].source = last.source
        /\ OthersUnchanged

C8_Witness ==
    /\ last.op = "upsert" /\ last.changed
    /\ StoredBefore
    /\ pre.rates.pairs[last.pair].rate # last.rate
    /\ pre.rates.pairs[last.pair].source # last.source
    /\ last.updated_at = <<"9">> /\ OldUpdatedAt = <<"1", "0">>
    /\ Cardinality(DOMAIN ratesFile.pairs) = 2

(* C9: an upsert with rate <= 0, an empty updated_at or an empty source    *)
(* fails with a validation error and writes nothing.                       *)
C9_InvalidArgsRejected ==
    (/\ last.op = "upsert"
     /\ (last.rate <= 0 \/ Strip(last.updated_at) = <<>> \/ Strip(last.source) = <<>>)) =>
        /\ last.status = "ValueError"
        /\ last.writes = 0
        /\ ratesFile = pre.rates

C9_Witness ==
    /\ last.op = "upsert" /\ last.status = "ValueError"
    /\ last.rate > 0 /\ Strip(last.updated_at) # <<>> /\ last.source = <<>>
    /\ ~StoredBefore
    /\ ratesFile.pairs # EmptyFn

(* C10: an upsert that returns changed = True leaves last_refresh equal to *)
(* the updated_at it wrote; one that returns changed = False leaves        *)
(* last_refresh as it was.                                                 *)
C10_LastRefreshFollowsWrite ==
    (last.op = "upsert" /\ last.status = "ok") =>
        /\ last.changed => ratesFile.last_refresh = Some(last.updated_at)
        /\ ~last.changed => ratesFile.last_refresh = pre.rates.last_refresh

C10_Witness ==
    /\ last.op = "upsert" /\ last.status = "ok" /\ last.changed
    /\ pre.rates.last_refresh # None
    /\ pre.rates.last_refresh # Some(last.updated_at)
    /\ ratesFile.last_refresh = Some(last.updated_at)

(* ------------------------------------------------------------------ *)
(* Rate resolver properties                                             *)
(* ------------------------------------------------------------------ *)
GetRateCalled == last.op = "get_rate"
CodesAccepted == GetRateCalled /\ last.status # "ValueError"
DirectPair == PairKey(last.from, last.to)
ReversePair == PairKey(last.to, last.from)

(* the time of an entry of the snapshot, written with a trailing Z *)
SnapshotTime(updated_at) ==
    IF updated_at # <<>> /\ updated_at[Len(updated_at)] = "Z"
    THEN parse_iso_dt(SubSeq(updated_at, 1, Len(updated_at) - 1))
    ELSE parse_iso_dt(updated_at)

(* the rates stored for the pair, in either layout of rates.json, that are *)
(* positive and not older than max_age_seconds at the clock               *)
FreshRates(file, pair, max_age_seconds, clock) ==
    {file.top[k].rate : k \in {q \in DOMAIN file.top :
        /\ q = pair
        /\ file.top[q].rate > 0
        /\ is_fresh(file.top[q].updated_at, max_age_seconds, clock)}}
    \cup
    {file.pairs[k].rate : k \in {q \in DOMAIN file.pairs :
        /\ q = pair
        /\ file.pairs[q].rate > 0
        /\ SnapshotTime(file.pairs[q].updated_at) # None
        /\ clock - SnapshotTime(file.pairs[q].updated_at)[1] <= max_age_seconds}}

FreshDirect == FreshRates(pre.rates, DirectPair, last.max_age_seconds, last.at)
FreshReverse == FreshRates(pre.rates, ReversePair, last.max_age_seconds, last.at)

(* C11: get_rate(from, to) with from # to, when neither the direct nor the *)
(* reverse pair is stored and fresh, fails with StaleOrMissingRate; it     *)
(* never answers from the hard-coded defaults.                             *)
C11_MissingRateFails ==
    (/\ CodesAccepted
     /\ last.status # "CurrencyNotFoundError"
     /\ last.from # last.to
     /\ FreshDirect = {}
     /\ FreshReverse = {})
        => (last.status = "StaleOrMissingRate" /\ last.origin # "stub")

(* C12: get_rate(from, to) whose direct pair is missing or stale while the *)
(* reverse pair is stored, positive and fresh returns reverse_rate = the   *)
(* stored rate and rate = 1 / the stored rate.                             *)
C12_ReversePairAnswers ==
    (CodesAccepted /\ last.from # last.to /\ FreshDirect = {} /\ FreshReverse # {})
        => /\ last.status = "ok"
           /\ last.reverse_rate \in FreshReverse
           /\ last.rate = Reciprocal(last.reverse_rate)

(* the entry cached for the direct pair before the call *)
CachedDirect ==
    /\ CodesAccepted
    /\ DirectPair \in DOMAIN pre.rates.top
    /\ pre.rates.top[DirectPair].rate > 0
    /\ parse_iso_dt(pre.rates.top[DirectPair].updated_at) # None
CachedAge == last.at - parse_iso_dt(pre.rates.top[DirectPair].updated_at)[1]
AnsweredFromCache ==
    /\ last.status = "ok"
    /\ last.origin = "cache"
    /\ last.rate = pre.rates.top[DirectPair].rate
    /\ last.updated_at = pre.rates.top[DirectPair].updated_at
    /\ last.writes = 0
    /\ ratesFile = pre.rates

C14_SameCodeSkipsCache ==
    (CodesAccepted /\ last.from = last.to)
        => /\ last.status = "ok"
           /\ last.rate = UnitRate
           /\ last.reads = 0

(* C15: the resolver only reads the rate cache: no get_rate call, failed   *)
(* or not, changes the persisted snapshot (pairs or last_refresh).         *)
C15_ResolverOnlyReads ==
    GetRateCalled
        => /\ ratesFile.pairs = pre.rates.pairs
           /\ ratesFile.last_refresh = pre.rates.last_refresh
           /\ last.writes = 0

(* the entry the reconciler stored for the direct pair, still within       *)
(* max_age_seconds of its refresh                                          *)
ReconciledDirect ==
    /\ CodesAccepted
    /\ DirectPair \in DOMAIN pre.rates.pairs
    /\ SnapshotTime(pre.rates.pairs[DirectPair].updated_at) # None
    /\ last.at - SnapshotTime(pre.rates.pairs[DirectPair].updated_at)[1]
          <= last.max_age_seconds

(* C16: the resolver answers from the cache the reconciler writes: after a *)
(* run_update stored FROM_TO with rate r, a get_rate(FROM, TO) made within *)
(* max_age_seconds of the refresh returns r.                               *)
C16_ResolverReadsReconciled ==
    ReconciledDirect
        => (last.status = "ok" /\ last.rate = pre.rates.pairs[DirectPair].rate)

(* ------------------------------------------------------------------ *)
(* Reconciler properties                                                *)
(* ------------------------------------------------------------------ *)
RunUpdateCalled == last.op = "run_update"
ClientsOf(call) == {call.clients[i] : i \in 1..Len(call.clients)}
FailedSources == {n \in ClientsOf(last) : ~last.outcomes[n].ok}
SucceededSources == {n \in ClientsOf(last) : last.outcomes[n].ok}

(* C17: in run_update a source whose fetch_rates fails contributes zero    *)
(* pairs and does not stop the run: every remaining source is still        *)
(* queried and the pairs of every successful source are submitted to the   *)
(* cache.                                                                  *)
C17_FailedSourceIsSkipped ==
    RunUpdateCalled =>
        /\ last.asked = last.clients
        /\ \A n \in FailedSources :
              /\ last.sources[n].count = 0
              /\ \A p \in DOMAIN last.combined : last.combined[p].source # n
        /\ \A n \in SucceededSources :
              \A p \in DOMAIN last.outcomes[n].rates :
                  /\ p \in DOMAIN last.combined
                  /\ (last.combined[p].rate > 0 => p \in DOMAIN ratesFile.pairs)

C17_Witness ==
    /\ RunUpdateCalled
    /\ ~last.outcomes[last.clients[1]].ok
    /\ last.outcomes[last.clients[2]] = Fetched(BTC_USD :> 6000000)
    /\ last.status = "ok"
    /\ last.had_errors
    /\ last.updated = 1
    /\ BTC_USD \in DOMAIN ratesFile.pairs
    /\ ratesFile.pairs[BTC_USD].rate = 6000000

(* C18: when every source fails, run_update fails and the persisted rate   *)
(* snapshot (pairs and last_refresh) is the one before the run.            *)
C18_AllSourcesFailed ==
    (RunUpdateCalled /\ SucceededSources = {})
        => /\ last.status = "ApiRequestError"
           /\ last.writes = 0
           /\ ratesFile = pre.rates

C18_Witness ==
    /\ RunUpdateCalled
    /\ SucceededSources = {}
    /\ last.status = "ApiRequestError"
    /\ pre.rates.pairs # EmptyFn
    /\ ratesFile = pre.rates

(* C19: the updated field of a successful run_update is the number of      *)
(* combined pairs for which the upsert changed the snapshot under the      *)
(* newer-wins rule, not the number of pairs fetched.                       *)
C19_UpdatedCountsChanges ==
    (/\ RunUpdateCalled
     /\ last.status = "ok"
     /\ \A p \in DOMAIN last.combined : last.combined[p].rate > 0)
        => last.updated = last.updated_count

(* the last source, in iteration order, that returned the pair *)
LastSourceOf(p) ==
    LET having == {i \in 1..Len(last.clients) :
                     /\ last.outcomes[last.clients[i]].ok
                     /\ p \in DOMAIN last.outcomes[last.clients[i]].rates}
    IN  last.clients[CHOOSE i \in having : \A j \in having : j <= i]

(* C20: when two sources of one run_update return the same pair, the entry *)
(* submitted to the cache carries the rate and the source name of the      *)
(* source processed later in iteration order, whatever the two rates are.  *)
C20_LaterSourceWins ==
    RunUpdateCalled =>
        \A p \in DOMAIN last.combined :
            /\ last.combined[p].source = LastSourceOf(p)
            /\ last.combined[p].rate = last.outcomes[LastSourceOf(p)].rates[p]

C20_Witness ==
    /\ RunUpdateCalled
    /\ last.outcomes[last.clients[1]] = Fetched(BTC_USD :> 6000000)
    /\ BTC_USD \in DOMAIN last.outcomes[last.clients[2]].rates
    /\ last.outcomes[last.clients[2]].rates[BTC_USD] = 5900000
    /\ last.combined[BTC_USD].source = last.clients[2]
    /\ last.combined[BTC_USD].rate = 5900000
    /\ ratesFile.pairs[BTC_USD].source = last.clients[2]

(* C21: in the result of a successful run_update the per-source metadata   *)
(* has one entry per configured source, ok = false with an error for       *)
(* exactly the sources whose fetch failed, ok = true with the pair count   *)
(* for the others, and had_errors is true iff at least one source failed.  *)
C21_PerSourceMetadata ==
    (RunUpdateCalled /\ last.status = "ok") =>
        /\ DOMAIN last.sources = ClientsOf(last)
        /\ \A n \in FailedSources :
              /\ ~last.sources[n].ok
              /\ "error" \in DOMAIN last.sources[n]
              /\ last.sources[n].error # ""
        /\ \A n \in SucceededSources :
              /\ last.sources[n].ok
              /\ "error" \notin DOMAIN last.sources[n]
              /\ last.sources[n].count = Cardinality(DOMAIN last.outcomes[n].rates)
        /\ (last.had_errors <=> FailedSources # {})

C21_Witness ==
    /\ RunUpdateCalled
    /\ last.status = "ok"
    /\ FailedSources = {last.clients[1]}
    /\ last.sources[last.clients[2]] = OkMeta(2)
    /\ ~last.sources[last.clients[1]].ok
    /\ last.had_errors

(* the pairs whose stored entry is not the one before the run *)
WrittenPairs ==
    {p \in DOMAIN ratesFile.pairs :
        p \notin DOMAIN pre.rates.pairs \/ ratesFile.pairs[p] # pre.rates.pairs[p]}

(* C22: all entries written by one run_update carry the same updated_at,   *)
(* the run's single refresh_ts; it is the last_refresh of the result, and  *)
(* after a run that changed at least one pair it is the snapshot's         *)
(* last_refresh.                                                           *)
C22_OneRefreshTimestamp ==
    (RunUpdateCalled /\ last.status = "ok") =>
        /\ \A p \in DOMAIN last.combined :
              last.combined[p].updated_at = last.last_refresh
        /\ \A p \in WrittenPairs : ratesFile.pairs[p].updated_at = last.last_refresh
        /\ (last.updated_count > 0 => ratesFile.last_refresh = Some(last.last_refresh))

C22_Witness ==
    /\ RunUpdateCalled
    /\ last.status = "ok"
    /\ WrittenPairs = {BTC_USD, EUR_USD}
    /\ ratesFile.pairs[BTC_USD].source # ratesFile.pairs[EUR_USD].source
    /\ ratesFile.pairs[BTC_USD].updated_at = ratesFile.pairs[EUR_USD].updated_at
    /\ pre.rates.last_refresh # None
    /\ ratesFile.last_refresh = Some(last.last_refresh)
    /\ ratesFile.last_refresh # pre.rates.last_refresh

(* ------------------------------------------------------------------ *)
(* Portfolio report properties                                          *)
(* ------------------------------------------------------------------ *)
ReportCalled == last.op = "report"
ReportWallets == load_user_portfolio(pre.portfolios, last.user)
RateToBase(code) == get_rate(code, last.base, pre.rates)
BaseResolved == last.base # <<>> /\ get_rate(USD, last.base, pre.rates).err = ""

RECURSIVE SumOfValues(_)
SumOfValues(codes) ==
    IF codes = {} THEN 0
    ELSE LET c == CHOOSE x \in codes : TRUE
         IN  Times(ReportWallets[c], RateToBase(c).rate) + SumOfValues(codes \ {c})

(* C28: build_portfolio_report fails as a whole, returning no items and no *)
(* total, if the rate to base cannot be resolved for even one wallet, and  *)
(* it fails for a base whose rate cannot be resolved even when the         *)
(* portfolio is empty; otherwise total is the sum of balance * rate over   *)
(* all wallets. It never modifies the portfolio store.                     *)
C28_ReportAllOrNothing ==
    ReportCalled =>
        /\ portfolios = pre.portfolios
        /\ IF ~BaseResolved \/ \E c \in DOMAIN ReportWallets : RateToBase(c).err # ""
           THEN last.status # "ok" /\ ~last.returned /\ last.items = <<>>
           ELSE /\ last.status = "ok"
                /\ Len(last.items) = Cardinality(DOMAIN ReportWallets)
                /\ last.total = SumOfValues(DOMAIN ReportWallets)

C28_Witness ==
    /\ ReportCalled
    /\ BaseResolved
    /\ Cardinality(DOMAIN ReportWallets) = 2
    /\ Cardinality({c \in DOMAIN ReportWallets : RateToBase(c).err # ""}) = 1
    /\ last.status = "CurrencyNotFoundError"
    /\ ~last.returned

(* ------------------------------------------------------------------ *)
(* Wallet properties                                                    *)
(* ------------------------------------------------------------------ *)
(* C27: Wallet.withdraw with amount > balance fails with                   *)
(* InsufficientFunds(available, required, code) and leaves the balance     *)
(* unchanged; with 0 < amount <= balance it sets the balance to old -      *)
(* amount, so withdrawing the exact balance leaves 0.                      *)
C27_WithdrawChecksFunds ==
    (last.op = "withdraw" /\ last.amount > 0) =>
        IF last.amount > last.before
        THEN /\ last.status = "InsufficientFunds"
             /\ wallet.balance = last.before
        ELSE /\ last.status = "ok"
             /\ wallet.balance = last.before - last.amount

(* ------------------------------------------------------------------ *)
(* History log properties                                               *)
(* ------------------------------------------------------------------ *)
AppendCalled == last.op = "append_history"

(* C29: appending to the history log is deduplicated by id: no two records *)
(* of the log have the same id, appending a record whose id is present     *)
(* leaves the log unchanged, and a record without a non-empty string id is *)
(* rejected without a write.                                               *)
C29_HistoryDeduplicated ==
    /\ \A i, j \in 1..Len(history) : i # j => history[i].id # history[j].id
    /\ AppendCalled =>
          IF last.record.id.kind # "string" \/ Strip(last.record.id.text) = <<>>
          THEN last.status = "ValueError" /\ last.writes = 0 /\ history = pre.history
          ELSE IF \E i \in 1..Len(pre.history) : pre.history[i].id = last.record.id
          THEN last.status = "ok" /\ last.writes = 0 /\ history = pre.history
          ELSE last.status = "ok" /\ history = Append(pre.history, last.record)

C29_Witness ==
    /\ AppendCalled
    /\ last.status = "ok"
    /\ Len(pre.history) = 2
    /\ \E i \in 1..Len(pre.history) :
          /\ pre.history[i].id = last.record.id
          /\ pre.history[i].payload # last.record.payload
    /\ history = pre.history

(* ------------------------------------------------------------------ *)
(* Snapshot loading properties                                          *)
(* ------------------------------------------------------------------ *)
LoadCalled == last.op = "load_snapshot"

(* the schema of the rate snapshot: an object, "pairs" an object of entries *)
(* with a numeric rate that is not negative, "last_refresh" a string or null *)
EntryInSchema(entry) == entry.rate.json = "number" /\ ~(entry.rate.value < 0)
DocInSchema(doc) ==
    /\ doc.json = "object"
    /\ doc.items.pairs.json \in {"null", "object"}
    /\ doc.items.last_refresh.json \in {"null", "string"}
    /\ doc.items.pairs.json = "object" =>
          \A k \in DOMAIN doc.items.pairs.items : EntryInSchema(doc.items.pairs.items[k])

(* C23: loading a persisted rate snapshot that violates the schema (wrong  *)
(* shape, a pair entry with a non-numeric rate or with a negative rate)    *)
(* fails instead of returning the data.                                    *)
C23_MalformedSnapshotRejected ==
    (LoadCalled /\ ~DocInSchema(last.doc)) => last.status # "ok"

(* ------------------------------------------------------------------ *)
(* Properties of the writes seen by a second process                    *)
(* ------------------------------------------------------------------ *)
SeenWhole ==
    \/ seen.content = seen.before
    \/ seen.content = seen.after

(* C24: a process that reads the rate snapshot while another process is    *)
(* inside upsert_snapshot_pair sees the complete snapshot from before the  *)
(* write or the complete snapshot after it, never a partial file.          *)
C24_SnapshotReadIsWhole ==
    (seen.file = "rates" /\ seen.during)
        => \/ seen.content = load_snapshot(seen.before)
           \/ seen.content = load_snapshot(seen.after)

C24_Witness ==
    /\ seen.file = "rates"
    /\ seen.during
    /\ seen.before.pairs # EmptyFn
    /\ seen.after # seen.before
    /\ seen.content = load_snapshot(seen.before)
    /\ ratesFile = seen.after

(* C25: a process that reads the portfolio store while another process is  *)
(* writing it in buy, sell or register sees the complete content from      *)
(* before the write or the complete content after it, never a torn write.  *)
C25_StoreReadIsWhole ==
    (seen.file = "portfolios" /\ seen.during) => SeenWhole

(* ------------------------------------------------------------------ *)
(* Invariant of the stored entries                                      *)
(* ------------------------------------------------------------------ *)
(* C30: starting from an empty snapshot, after any sequence of upserts and *)
(* run_update calls, with rates of any sign returned by the sources, every *)
(* entry stored under pairs has rate > 0, a non-empty updated_at and a     *)
(* non-empty source, and each pair key has one entry.                      *)
C30_StoredEntriesValid ==
    /\ \A p \in DOMAIN ratesFile.pairs :
          /\ ratesFile.pairs[p].rate > 0
          /\ Strip(ratesFile.pairs[p].updated_at) # <<>>
          /\ Strip(ratesFile.pairs[p].source) # <<>>
    /\ Cardinality(DOMAIN ratesFile.pairs) <= Cardinality(Pairs)

C30_Witness ==
    /\ RunUpdateCalled
    /\ last.status = "ok"
    /\ \E p \in DOMAIN last.combined :
          /\ last.combined[p].rate <= 0
          /\ p \notin DOMAIN ratesFile.pairs
    /\ \E p \in DOMAIN last.combined : last.combined[p].rate < 0
    /\ \E p \in DOMAIN ratesFile.pairs : ratesFile.pairs[p].source = <<"A">>

(* ------------------------------------------------------------------ *)
(* Wallet keys of the portfolio store                                   *)
(* ------------------------------------------------------------------ *)
IsCurrencyCode(k) == validate_code(k).ok /\ validate_code(k).value = k

(* C31: after any sequence of buy and sell calls with arbitrary code       *)
(* arguments, every wallet key of the persisted portfolio store is a       *)
(* normalized CurrencyCode (uppercase, 2 to 5 characters, no whitespace),  *)
(* a portfolio has one wallet per code, and a call with a malformed code   *)
(* is rejected and creates no wallet.                                      *)
C31_WalletKeysAreCodes ==
    /\ \A i \in 1..Len(portfolios) :
          \A k \in DOMAIN portfolios[i].wallets : IsCurrencyCode(k)
    /\ (last.op \in {"buy", "sell"} /\ ~IsCurrencyCode(last.code)) =>
          /\ last.status = "ValueError"
          /\ portfolios = pre.portfolios

(* ------------------------------------------------------------------ *)
(* Portfolio records                                                    *)
(* ------------------------------------------------------------------ *)
IdsOf(records) == {records[i].user_id : i \in 1..Len(records)}

C33_NonPositiveAmountRejected ==
    (last.op \in {"buy", "sell"} /\ last.amount <= 0) =>
        /\ last.status \in {"InvalidAmount", "ValueError"}
        /\ last.code # <<>> /\ last.base # <<>> => last.status = "InvalidAmount"
        /\ last.writes = 0
        /\ portfolios = pre.portfolios
        /\ pc = "idle"

C33_Witness ==
    /\ last.op = "sell"
    /\ last.amount < 0
    /\ last.status = "InvalidAmount"
    /\ last.code \notin DOMAIN WalletsNow
    /\ portfolios # <<>>

(* ------------------------------------------------------------------ *)
(* Calls of two processes on the same file                              *)
(* ------------------------------------------------------------------ *)
UpsertFinished == last.op = "upsert_finish" /\ last.status = "ok"

(* the entry on disk is older than the entry the finished call found there *)
NewerEntryLost ==
    /\ last.pair \in DOMAIN last.replaced
    /\ StrGT(last.replaced[last.pair].updated_at, ratesFile.pairs[last.pair].updated_at)

(* C34: upsert_snapshot_pair takes no cross-process lock: with two         *)
(* processes each running it on the same pair there is an interleaving     *)
(* (both load the snapshot before either writes) after which the stored    *)
(* entry is the one with the older updated_at although the newer one had   *)
(* been written; the newer-wins rule holds for calls that do not overlap.  *)
C34_NewerWinsWithoutOverlap ==
    (UpsertFinished /\ ~last.overlapped) =>
        /\ ~NewerEntryLost
        /\ ~StrGT(last.updated_at, ratesFile.pairs[last.pair].updated_at)

C34_Witness ==
    /\ UpsertFinished
    /\ last.overlapped
    /\ NewerEntryLost
    /\ \A p \in ProcIds : procs[p].at = "idle"

BuyWritten == last.op = "buy_write"

(* the balance of a wallet in a store, 0 when the wallet is not there *)
StoredBalance(ps, user_id, code) == BalanceIn(load_user_portfolio(ps, user_id), code)

(* a wallet other than the one the call bought into differs from what was *)
(* on disk when the call wrote                                            *)
UnrelatedChangeLost ==
    \E u \in UserIds, c \in RaceCodes :
        /\ <<u, c>> # <<last.user, last.code>>
        /\ StoredBalance(portfolios, u, c) # StoredBalance(last.replaced, u, c)

(* C35: with two processes running buy or sell on the same portfolio store *)
(* at the same time, each does its own full read-modify-write and the      *)
(* second writer's full store wins: there is an interleaving after which   *)
(* the first writer's change to an unrelated wallet or user is missing     *)
(* from the store, while calls that do not overlap never lose a change.    *)
C35_NoLossWithoutOverlap ==
    (BuyWritten /\ ~last.overlapped) =>
        /\ ~UnrelatedChangeLost
        /\ StoredBalance(portfolios, last.user, last.code) =
              StoredBalance(last.replaced, last.user, last.code) + last.amount

C35_Witness ==
    /\ BuyWritten
    /\ last.overlapped
    /\ \E u \in UserIds \ {last.user}, c \in RaceCodes :
          /\ StoredBalance(last.replaced, u, c) > 0
          /\ StoredBalance(portfolios, u, c) = 0
    /\ \A p \in ProcIds : procs[p].at = "idle"

(* ------------------------------------------------------------------ *)
(* Failure of a whole run                                               *)
(* ------------------------------------------------------------------ *)
(* C36: run_update fails with the all-sources-failed error only if every   *)
(* configured source raised a fetch error: a run in which at least one     *)
(* source returned successfully, even with an empty mapping, does not      *)
(* fail, so a failed run never coincides with had_errors being false.      *)
C36_FailsOnlyIfAllFailed ==
    (RunUpdateCalled /\ last.status = "ApiRequestError") =>
        /\ SucceededSources = {}
        /\ last.had_errors

(* ------------------------------------------------------------------ *)
(* last_refresh and the stored times                                    *)
(* ------------------------------------------------------------------ *)
StoredTimes == {ratesFile.pairs[p].updated_at : p \in DOMAIN ratesFile.pairs}

C38_PairsOnlyAdvance ==
    \A p \in DOMAIN pre.rates.pairs :
        /\ p \in DOMAIN ratesFile.pairs
        /\ ~StrGT(pre.rates.pairs[p].updated_at, ratesFile.pairs[p].updated_at)

C38_Witness ==
    /\ RunUpdateCalled
    /\ last.status = "ok"
    /\ \E p \in (DOMAIN last.combined) \cap (DOMAIN pre.rates.pairs) :
          /\ last.combined[p].rate > 0
          /\ StrGT(pre.rates.pairs[p].updated_at, last.combined[p].updated_at)
          /\ ratesFile.pairs[p] = pre.rates.pairs[p]

(* ------------------------------------------------------------------ *)
(* Sell into the wallet that is sold                                    *)
(* ------------------------------------------------------------------ *)
SellOfBase == last.op = "sell" /\ last.code # <<>> /\ last.code = last.base

(* C39: a successful sell with code == base changes exactly one wallet:    *)
(* the base wallet is lowered by amount and nothing is credited, so no     *)
(* other wallet changes and the store is written once.                     *)
C39_SellOfBaseOnlyDebits ==
    (SellOfBase /\ last.status = "ok") =>
        /\ last.writes = 1
        /\ last.rate = UnitRate
        /\ portfolios =
             WithBalances(pre.portfolios, last.user,
                (last.base :> (WalletsBefore[last.base] - last.amount)))

C39_Witness ==
    /\ SellOfBase /\ last.status = "ok"
    /\ last.amount > 0
    /\ Cardinality(DOMAIN WalletsBefore) > 1
    /\ BalanceIn(WalletsNow, last.base) = BalanceIn(WalletsBefore, last.base) - last.amount
====
